---- MODULE Spec2Model ----
(***************************************************************************)
(* KZG polynomial commitments (lewis-wow/snark): the trusted setup, the    *)
(* commitment, the evaluation proof by synthetic division, the pairing     *)
(* check, the hiding variant (ZkKzg), the adversarial variant that keeps   *)
(* the setup secret (CheatingKzg), the first-generation class              *)
(* PolynomialCommitmentScheme, and the polynomial helpers.                 *)
(*                                                                         *)
(* The scalar field Fr is modelled as the integers modulo the prime ORDER. *)
(* G1, G2 and GT are cyclic groups of that prime order: a point is written *)
(* by the name of its group and its discrete logarithm to the group's      *)
(* generator, so two points are equal exactly when the group elements are, *)
(* and the pairing of a*G1 and b*G2 is (a*b)*e(G1,G2).  An exception that  *)
(* leaves an operation is the value Thrown (FrThrown for a scalar,         *)
(* "thrown" for a boolean result).                                         *)
(***************************************************************************)
EXTENDS Integers, Sequences, FiniteSets, TLC

\* Largest degree the caller hands to setup.
MaxDegree == 2

\* Longest coefficient array a caller hands to commit and prove.
MaxLen == MaxDegree + 1

\* The order of the scalar field and of the groups (Fr.ORDER), a small prime here.
ORDER == 3

Fr == 0..(ORDER - 1)

\* The degrees a caller may pass: the invalid ones (<= 0) and the valid ones.
Degrees == (-1)..MaxDegree

\* The coefficient arrays a caller may pass, the empty one included.
CoeffArrays == UNION {[1..n -> Fr] : n \in 0..MaxLen}

Min(a, b) == IF a < b THEN a ELSE b

(***************************************************************************)
(* The scalar field (IField of @noble/curves, as the classes call it).     *)
(***************************************************************************)
FrThrown == -1

\* An entry of an array that no statement has assigned; a variable not yet bound.
undefined == -2

Fr_add(a, b) == (a + b) % ORDER

Fr_sub(a, b) == (a + ORDER - b) % ORDER

Fr_mul(a, b) == (a * b) % ORDER

Fr_neg(a) == (ORDER - a) % ORDER

\* invert(0) throws.
Fr_inv(a) == IF a = 0 THEN FrThrown ELSE CHOOSE x \in Fr : (a * x) % ORDER = 1

Fr_div(a, b) == IF b = 0 THEN FrThrown ELSE Fr_mul(a, Fr_inv(b))

(***************************************************************************)
(* The groups and the pairing (bls12_381 of @noble/curves).                *)
(***************************************************************************)
Point(g, k) == [grp |-> g, e |-> k]

G1 == Point("G1", 1)

G2 == Point("G2", 1)

G1_ZERO == Point("G1", 0)

Thrown == Point("thrown", 0)

\* Point.multiply accepts the scalars 1 <= k < ORDER only: 0 is "invalid scalar".
multiply(P, k) ==
  IF P = Thrown \/ k \notin 1..(ORDER - 1) THEN Thrown
  ELSE Point(P.grp, (P.e * k) % ORDER)

point_add(P, Q) ==
  IF P = Thrown \/ Q = Thrown THEN Thrown
  ELSE Point(P.grp, (P.e + Q.e) % ORDER)

subtract(P, Q) ==
  IF P = Thrown \/ Q = Thrown THEN Thrown
  ELSE Point(P.grp, (P.e + ORDER - Q.e) % ORDER)

\* bls12_381.pairing(g1, g2): "pairing is not available for ZERO point".
pairing(P, Q) ==
  IF P = Thrown \/ Q = Thrown THEN Thrown
  ELSE IF P.e = 0 \/ Q.e = 0 THEN Thrown
  ELSE Point("GT", (P.e * Q.e) % ORDER)

\* Fp12.eql of two pairing results, as the boolean the caller sees.
eql(a, b) ==
  IF a = Thrown \/ b = Thrown THEN "thrown"
  ELSE IF a = b THEN "true" ELSE "false"

(***************************************************************************)
(* assert(condition): a failed assertion is a fatal failure.               *)
(***************************************************************************)
assert(condition) == condition

(***************************************************************************)
(* evalPolyAt: Horner's rule from the highest coefficient down.            *)
(***************************************************************************)
RECURSIVE reduceRight(_, _, _, _)
reduceRight(coefficients, x, i, accumulator) ==
  IF i = 0 THEN accumulator
  ELSE reduceRight(coefficients, x, i - 1,
                   Fr_add(Fr_mul(accumulator, x), coefficients[i]))

evalPolyAt(coefficients, x) == reduceRight(coefficients, x, Len(coefficients), 0)

(***************************************************************************)
(* Kzg                                                                     *)
(***************************************************************************)
NoReturn == [thrown |-> TRUE]

\* Whether a call of setup returned an object (it did not throw).
returned(s) == "thrown" \notin DOMAIN s

\* The ladder loop of _setup; i counts the points already pushed.
RECURSIVE Kzg_setup_loop(_, _, _, _, _)
Kzg_setup_loop(degree, alpha, i, currentAlpha, pp) ==
  IF i >= degree + 1 THEN pp
  ELSE Kzg_setup_loop(degree, alpha, i + 1, Fr_mul(currentAlpha, alpha),
                      Append(pp, multiply(G1, currentAlpha)))

Kzg__setup(degree, alpha) ==
  IF ~assert(degree > 0) THEN NoReturn
  ELSE LET pp == Kzg_setup_loop(degree, alpha, 0, 1, <<>>)
           alpha_G2 == multiply(G2, alpha)
       IN IF alpha_G2 = Thrown \/ \E i \in 1..Len(pp) : pp[i] = Thrown
          THEN NoReturn
          ELSE [pp |-> pp, alpha_G2 |-> alpha_G2]

\* Kzg.setup as it would be if it handed the secret back with the parameters.
Kzg_setup_leaky(degree, alpha) ==
  IF ~assert(degree > 0) THEN NoReturn
  ELSE LET s == Kzg__setup(degree, alpha)
       IN IF ~returned(s) THEN NoReturn
          ELSE [pp |-> s.pp, alpha_G2 |-> s.alpha_G2, alpha |-> alpha]

\* Kzg.setup: returns what _setup returned, picked apart and put together again.
Kzg_setup(degree, alpha) ==
  IF ~assert(degree > 0) THEN NoReturn
  ELSE LET s == Kzg__setup(degree, alpha)
       IN IF ~returned(s) THEN NoReturn
          ELSE [pp |-> s.pp, alpha_G2 |-> s.alpha_G2]

\* The accumulation loop of commit; i counts the terms already added.
RECURSIVE Kzg_commit_loop(_, _, _, _)
Kzg_commit_loop(pp, f_coeffs, i, com_f) ==
  IF i >= Len(pp) THEN com_f
  ELSE Kzg_commit_loop(pp, f_coeffs, i + 1,
                       point_add(com_f, multiply(pp[i + 1], f_coeffs[i + 1])))

Kzg_commit(pp, f_coeffs) ==
  IF ~assert(Len(pp) = Len(f_coeffs)) THEN Thrown
  ELSE Kzg_commit_loop(pp, f_coeffs, 0, G1_ZERO)

\* The synthetic division loop as it would be if the carry were added without the
\* factor u.
RECURSIVE division_loop_noU(_, _, _, _, _)
division_loop_noU(f_coeffs, u, i, carry, q_coeffs) ==
  IF ~(i > 0) THEN [q |-> q_coeffs, carry |-> carry]
  ELSE LET c == Fr_add(f_coeffs[i + 1], carry)
       IN division_loop_noU(f_coeffs, u, i - 1, c, [q_coeffs EXCEPT ![i] = c])

\* The synthetic division loop; i is the source's index (coefficient i is f[i+1] here).
RECURSIVE division_loop(_, _, _, _, _)
division_loop(f_coeffs, u, i, carry, q_coeffs) ==
  IF ~(i > 0) THEN [q |-> q_coeffs, carry |-> carry]
  ELSE LET c == Fr_add(f_coeffs[i + 1], Fr_mul(u, carry))
       IN division_loop(f_coeffs, u, i - 1, c, [q_coeffs EXCEPT ![i] = c])

\* The quotient of prove as it would be if the carry started at Kzg.ONE.
quotient_carryOne(f_coeffs, u) ==
  division_loop(f_coeffs, u, Len(f_coeffs) - 1, 1,
                [k \in 1..(Len(f_coeffs) - 1) |-> undefined])

\* The quotient of prove; Len(f_coeffs) >= 1.
quotient(f_coeffs, u) ==
  division_loop(f_coeffs, u, Len(f_coeffs) - 1, 0,
                [k \in 1..(Len(f_coeffs) - 1) |-> undefined])

\* Array.prototype.slice(0, n).
slice(pp, n) == SubSeq(pp, 1, Min(n, Len(pp)))

Kzg_prove(pp, f_coeffs, u) ==
  IF Len(f_coeffs) = 0 THEN Thrown   \* new Array(-1): RangeError
  ELSE LET q_coeffs == quotient(f_coeffs, u).q
           q_pp == slice(pp, Len(q_coeffs))
       IN Kzg_commit(q_pp, q_coeffs)

Kzg_verify(com_f, com_q, u, v, alpha_G2) ==
  LET pairing2 == pairing(com_q, subtract(alpha_G2, multiply(G2, u)))
      pairing1 == pairing(subtract(com_f, multiply(G1, v)), G2)
  IN eql(pairing1, pairing2)

(***************************************************************************)
(* CheatingKzg extends Kzg: commit and verify are Kzg's.                   *)
(***************************************************************************)
CheatingKzg_setup(degree, alpha) ==
  IF ~assert(degree > 0) THEN NoReturn
  ELSE LET s == Kzg__setup(degree, alpha)
       IN IF ~returned(s) THEN NoReturn
          ELSE [pp |-> s.pp, alpha_G2 |-> s.alpha_G2, alpha |-> alpha]

\* f(alpha) by running powers of alpha; i counts the terms already added.
RECURSIVE f_alpha_loop(_, _, _, _, _)
f_alpha_loop(f_coeffs, alpha, i, f_alpha, currentAlphaPow) ==
  IF i >= Len(f_coeffs) THEN f_alpha
  ELSE f_alpha_loop(f_coeffs, alpha, i + 1,
                    Fr_add(f_alpha, Fr_mul(f_coeffs[i + 1], currentAlphaPow)),
                    Fr_mul(currentAlphaPow, alpha))

CheatingKzg_prove(f_coeffs, u, vFake, alpha) ==
  LET f_alpha == f_alpha_loop(f_coeffs, alpha, 0, 0, 1)
      numerator == Fr_sub(f_alpha, vFake)
      denominator == Fr_sub(alpha, u)
      qFake == Fr_div(numerator, denominator)
  IN IF qFake = FrThrown THEN Thrown ELSE multiply(G1, qFake)

(***************************************************************************)
(* ZkKzg                                                                   *)
(***************************************************************************)
\* The ladder loop of ZkKzg._setup as it would be if the second ladder were built on
\* G1 instead of H.
RECURSIVE ZkKzg_setup_loop_noBeta(_, _, _, _, _, _, _)
ZkKzg_setup_loop_noBeta(degree, alpha, H, i, currentAlpha, pp_G1, pp_H) ==
  IF i >= degree + 1 THEN [pp_G1 |-> pp_G1, pp_H |-> pp_H]
  ELSE ZkKzg_setup_loop_noBeta(degree, alpha, H, i + 1, Fr_mul(currentAlpha, alpha),
                               Append(pp_G1, multiply(G1, currentAlpha)),
                               Append(pp_H, multiply(G1, currentAlpha)))

\* The ladder loop of ZkKzg._setup: both ladders grow together.
RECURSIVE ZkKzg_setup_loop(_, _, _, _, _, _, _)
ZkKzg_setup_loop(degree, alpha, H, i, currentAlpha, pp_G1, pp_H) ==
  IF i >= degree + 1 THEN [pp_G1 |-> pp_G1, pp_H |-> pp_H]
  ELSE ZkKzg_setup_loop(degree, alpha, H, i + 1, Fr_mul(currentAlpha, alpha),
                        Append(pp_G1, multiply(G1, currentAlpha)),
                        Append(pp_H, multiply(H, currentAlpha)))

ZkKzg__setup(degree, alpha, beta) ==
  IF ~assert(degree > 0) THEN NoReturn
  ELSE LET H == multiply(G1, beta)
           l == ZkKzg_setup_loop(degree, alpha, H, 0, 1, <<>>, <<>>)
           alpha_G2 == multiply(G2, alpha)
       IN IF \/ H = Thrown
             \/ alpha_G2 = Thrown
             \/ \E i \in 1..Len(l.pp_G1) : l.pp_G1[i] = Thrown \/ l.pp_H[i] = Thrown
          THEN NoReturn
          ELSE [pp_G1 |-> l.pp_G1, pp_H |-> l.pp_H, alpha_G2 |-> alpha_G2, H |-> H]

ZkKzg_setup(degree, alpha, beta) ==
  IF ~assert(degree > 0) THEN NoReturn
  ELSE LET s == ZkKzg__setup(degree, alpha, beta)
       IN IF ~returned(s) THEN NoReturn
          ELSE [pp_G1 |-> s.pp_G1, pp_H |-> s.pp_H, alpha_G2 |-> s.alpha_G2, H |-> s.H]

\* The accumulation loop of ZkKzg.commit: it runs over pp_G1's indices; reading
\* pp_H past its end gives undefined, and undefined.multiply is a TypeError; reading
\* r_coeffs past its end gives undefined, which multiply rejects.
RECURSIVE ZkKzg_commit_loop(_, _, _, _, _, _)
ZkKzg_commit_loop(pp_G1, pp_H, f_coeffs, r_coeffs, i, com_f) ==
  IF i >= Len(pp_G1) THEN com_f
  ELSE LET termG1 == multiply(pp_G1[i + 1], f_coeffs[i + 1])
           termH == IF i + 1 > Len(pp_H) THEN Thrown
                    ELSE multiply(pp_H[i + 1],
                                  IF i + 1 > Len(r_coeffs) THEN undefined
                                  ELSE r_coeffs[i + 1])
       IN ZkKzg_commit_loop(pp_G1, pp_H, f_coeffs, r_coeffs, i + 1,
                            point_add(point_add(com_f, termG1), termH))

\* ZkKzg.commit as it would be without its second assertion.
ZkKzg_commit_oneAssert(pp_G1, pp_H, f_coeffs, r_coeffs) ==
  IF ~assert(Len(pp_G1) = Len(f_coeffs)) THEN Thrown
  ELSE ZkKzg_commit_loop(pp_G1, pp_H, f_coeffs, r_coeffs, 0, G1_ZERO)

ZkKzg_commit(pp_G1, pp_H, f_coeffs, r_coeffs) ==
  IF ~assert(Len(pp_G1) = Len(f_coeffs)) THEN Thrown
  ELSE IF ~assert(Len(pp_H) = Len(r_coeffs)) THEN Thrown
  ELSE ZkKzg_commit_loop(pp_G1, pp_H, f_coeffs, r_coeffs, 0, G1_ZERO)

ZkKzg_prove(pp_G1, pp_H, f_coeffs, r_coeffs, u) ==
  IF Len(f_coeffs) = 0 \/ Len(r_coeffs) = 0 THEN Thrown   \* new Array(-1): RangeError
  ELSE LET q_f_coeffs == quotient(f_coeffs, u).q
           q_r_coeffs == quotient(r_coeffs, u).q
           q_pp_G1 == slice(pp_G1, Len(q_f_coeffs))
           q_pp_H == slice(pp_H, Len(q_r_coeffs))
       IN ZkKzg_commit(q_pp_G1, q_pp_H, q_f_coeffs, q_r_coeffs)

ZkKzg_verify(com_f, com_q, u, v, v_r, alpha_G2, H) ==
  LET pairing2 == pairing(com_q, subtract(alpha_G2, multiply(G2, u)))
      pairing1 == pairing(subtract(subtract(com_f, multiply(G1, v)), multiply(H, v_r)), G2)
  IN eql(pairing1, pairing2)

(***************************************************************************)
(* PolynomialCommitmentScheme (the first version of the class) and its     *)
(* adversarial subclass.                                                   *)
(***************************************************************************)
RECURSIVE PCS_setup_loop(_, _, _, _, _)
PCS_setup_loop(degree, a, i, currentAlpha, pp) ==
  IF i >= degree + 1 THEN pp
  ELSE PCS_setup_loop(degree, a, i + 1, Fr_mul(currentAlpha, a),
                      Append(pp, multiply(G1, currentAlpha)))

\* setup states no precondition on degree.
PCS_setup(degree, a) ==
  LET pp == PCS_setup_loop(degree, a, 0, 1, <<>>)
      alpha_G2 == multiply(G2, a)
  IN IF alpha_G2 = Thrown \/ \E i \in 1..Len(pp) : pp[i] = Thrown
     THEN NoReturn
     ELSE [pp |-> pp, alpha_G2 |-> alpha_G2]

\* this._setup is no method of PolynomialCommitmentScheme: the call is a TypeError.
CheatingPCS_setup(degree, alpha) ==
  IF ~assert(degree > 0) THEN NoReturn
  ELSE NoReturn

(***************************************************************************)
(* Polynomial helpers: mulPoly, addPoly, lagrangeInterpolation.            *)
(***************************************************************************)
\* The double loop of mulPoly over (i, j), both counted from 0 as in the source.
RECURSIVE mulPoly_loop(_, _, _, _, _)
mulPoly_loop(a, b, i, j, res) ==
  IF i >= Len(a) THEN res
  ELSE IF j >= Len(b) THEN mulPoly_loop(a, b, i + 1, 0, res)
  ELSE mulPoly_loop(a, b, i, j + 1,
         [res EXCEPT ![i + j + 1] = Fr_add(res[i + j + 1], Fr_mul(a[i + 1], b[j + 1]))])

\* Len(a) + Len(b) >= 1 at every call the interpolation makes.
mulPoly(a, b) == mulPoly_loop(a, b, 0, 0, [k \in 1..(Len(a) + Len(b) - 1) |-> 0])

addPoly(a, b) ==
  LET maxLen == IF Len(a) > Len(b) THEN Len(a) ELSE Len(b)
  IN [k \in 1..maxLen |->
        Fr_add(IF k <= Len(a) THEN a[k] ELSE 0, IF k <= Len(b) THEN b[k] ELSE 0)]

\* What lagrangeInterpolation leaves when Fr.inv throws.
PolyThrown == <<FrThrown>>

\* The inner loop over j as it would be with the factor (x + x_j) for (x - x_j).
RECURSIVE basis_loop_noNeg(_, _, _, _, _)
basis_loop_noNeg(points, i, j, basis, denominator) ==
  IF j >= Len(points) THEN [basis |-> basis, denominator |-> denominator]
  ELSE IF i # j
       THEN basis_loop_noNeg(points, i, j + 1,
                             mulPoly(basis, <<points[j + 1].x, 1>>),
                             Fr_mul(denominator, Fr_sub(points[i + 1].x, points[j + 1].x)))
       ELSE basis_loop_noNeg(points, i, j + 1, basis, denominator)

\* The inner loop over j: basis and denominator of the i-th Lagrange term
\* (i, j counted from 0).
RECURSIVE basis_loop(_, _, _, _, _)
basis_loop(points, i, j, basis, denominator) ==
  IF j >= Len(points) THEN [basis |-> basis, denominator |-> denominator]
  ELSE IF i # j
       THEN basis_loop(points, i, j + 1,
                       mulPoly(basis, <<Fr_neg(points[j + 1].x), 1>>),
                       Fr_mul(denominator, Fr_sub(points[i + 1].x, points[j + 1].x)))
       ELSE basis_loop(points, i, j + 1, basis, denominator)

\* The outer loop over i.
RECURSIVE terms_loop(_, _, _)
terms_loop(points, i, result) ==
  IF i >= Len(points) THEN result
  ELSE LET b == basis_loop(points, i, 0, <<1>>, 1)
           invDenom == Fr_inv(b.denominator)
           termY == Fr_mul(points[i + 1].y, invDenom)
           termPoly == mulPoly(b.basis, <<termY>>)
       IN IF invDenom = FrThrown THEN PolyThrown
          ELSE terms_loop(points, i + 1, addPoly(result, termPoly))

\* Clean up trailing zeros.
RECURSIVE pop_loop(_)
pop_loop(result) ==
  IF Len(result) > 0 /\ result[Len(result)] = 0
  THEN pop_loop(SubSeq(result, 1, Len(result) - 1))
  ELSE result

lagrangeInterpolation(points) ==
  LET result == terms_loop(points, 0, <<0>>)
  IN IF result = PolyThrown THEN PolyThrown ELSE pop_loop(result)

(***************************************************************************)
(* The program: a caller constructs one of the classes and calls           *)
(* setup -> commit -> prove -> verify on it, or collects evaluations of a  *)
(* polynomial and interpolates them.                                       *)
(***************************************************************************)
VARIABLES
  scheme,          \* the class the caller constructed, or "utils"
  this,            \* the instance fields of the constructed object
  pc,              \* "new", "ready", "committed", "proved", "verified", "failed",
                   \* "collected", "interpolated"
  last,            \* the method called last: "none", "setup", "commit", "prove", "verify"
  degree,          \* the degree handed to setup
  drawn,           \* what the random source handed to setup: [alpha, beta]
  ret,             \* the object setup returned, or NoReturn
  pp,              \* the ladder the caller hands to commit and prove (Kzg, CheatingKzg)
  f_coeffs,        \* the caller's coefficient array
  r_coeffs,        \* the caller's blinding array (ZkKzg)
  u,               \* the evaluation point handed to prove
  vFake,           \* the value CheatingKzg.prove forges a proof for
  v,               \* the claimed value handed to verify
  v_r,             \* the claimed blinding value handed to verify (ZkKzg)
  com_f,           \* what commit returned
  com_q,           \* what prove returned
  isValid,         \* what verify returned
  points,          \* the collected (x, y) pairs
  recoveredCoeffs  \* what lagrangeInterpolation returned

vars == <<scheme, this, pc, last, degree, drawn, ret, pp, f_coeffs, r_coeffs, u, vFake, v,
          v_r, com_f, com_q, isValid, points, recoveredCoeffs>>

Schemes == {"Kzg", "CheatingKzg", "ZkKzg", "PolynomialCommitmentScheme",
            "CheatingPolynomialCommitmentScheme", "utils"}

\* A point-valued variable no call has set yet.
NoPoint == Point("none", 0)

\* The constructors: only PolynomialCommitmentScheme has an instance field.
constructor(class) ==
  IF class \in {"PolynomialCommitmentScheme", "CheatingPolynomialCommitmentScheme"}
  THEN [field |-> "createPrimeField(Fr.ORDER)"]
  ELSE <<>>

Init ==
  /\ scheme \in Schemes
  /\ this = constructor(scheme)
  /\ pc = "new"
  /\ last = "none"
  /\ degree = undefined
  /\ drawn = [alpha |-> undefined, beta |-> undefined]
  /\ ret = NoReturn
  /\ pp = <<>>
  /\ f_coeffs = <<>>
  /\ r_coeffs = <<>>
  /\ u = undefined
  /\ vFake = undefined
  /\ v = undefined
  /\ v_r = undefined
  /\ com_f = NoPoint
  /\ com_q = NoPoint
  /\ isValid = "undefined"
  /\ points = <<>>
  /\ recoveredCoeffs = <<>>

\* setup of the constructed class, with the scalars the random source hands it.
setup(class, d, alpha, beta) ==
  CASE class = "Kzg" -> Kzg_setup(d, alpha)
    [] class = "CheatingKzg" -> CheatingKzg_setup(d, alpha)
    [] class = "ZkKzg" -> ZkKzg_setup(d, alpha, beta)
    [] class = "PolynomialCommitmentScheme" -> PCS_setup(d, alpha)
    [] class = "CheatingPolynomialCommitmentScheme" -> CheatingPCS_setup(d, alpha)

\* Whether setup of the class reaches its random draw for degree d: every class but
\* PolynomialCommitmentScheme asserts degree > 0 first.
draws(class, d) == class = "PolynomialCommitmentScheme" \/ assert(d > 0)

\* The stages at which commit, prove and verify have been called at least once.
AfterCommit == {"committed", "proved", "verified"}

AfterProve == {"proved", "verified"}

\* The ladders a caller of Kzg hands to commit: the one setup returned, or its first
\* point alone (the ladder of a constant polynomial).
Handed(class, ladder) ==
  IF class = "Kzg" THEN {ladder, slice(ladder, 1)} ELSE {ladder}

\* A call of setup({degree: d}).
Setup ==
  /\ pc = "new"
  /\ scheme # "utils"
  /\ \E d \in Degrees :
       \E a \in (IF draws(scheme, d) THEN Fr ELSE {undefined}) :
         \E b \in (IF draws(scheme, d) /\ scheme = "ZkKzg" THEN Fr ELSE {undefined}) :
           /\ degree' = d
           /\ drawn' = [alpha |-> a, beta |-> b]
           /\ ret' = setup(scheme, d, a, b)
           /\ pc' = IF returned(setup(scheme, d, a, b)) THEN "ready" ELSE "failed"
  /\ last' = "setup"
  /\ UNCHANGED <<scheme, this, pp, f_coeffs, r_coeffs, u, vFake, v, v_r, com_f, com_q,
                 isValid, points, recoveredCoeffs>>

\* A call of commit({pp, f_coeffs}) of Kzg (CheatingKzg inherits it): the first call
\* with arrays of the caller's choice, a later call with the same arrays again.
\* commit writes to no array it is handed.
Commit ==
  /\ pc \in {"ready"} \cup AfterCommit
  /\ scheme \in {"Kzg", "CheatingKzg"}
  /\ \E ladder \in (IF pc = "ready" THEN Handed(scheme, ret.pp) ELSE {pp}) :
       \E f \in (IF pc = "ready" THEN CoeffArrays ELSE {f_coeffs}) :
         /\ pp' = ladder
         /\ f_coeffs' = f
         /\ com_f' = Kzg_commit(ladder, f)
  /\ pc' = IF pc = "ready" THEN "committed" ELSE pc
  /\ last' = "commit"
  /\ UNCHANGED <<scheme, this, degree, drawn, ret, r_coeffs, u, vFake, v, v_r, com_q,
                 isValid, points, recoveredCoeffs>>

\* A call of ZkKzg.commit({pp_G1, pp_H, f_coeffs, r_coeffs}), the first or a later one
\* with the same arrays.
ZkCommit ==
  /\ pc \in {"ready"} \cup AfterCommit
  /\ scheme = "ZkKzg"
  /\ \E f \in (IF pc = "ready" THEN CoeffArrays ELSE {f_coeffs}) :
       \E r \in (IF pc = "ready" THEN CoeffArrays ELSE {r_coeffs}) :
         /\ f_coeffs' = f
         /\ r_coeffs' = r
         /\ com_f' = ZkKzg_commit(ret.pp_G1, ret.pp_H, f, r)
  /\ pc' = IF pc = "ready" THEN "committed" ELSE pc
  /\ last' = "commit"
  /\ UNCHANGED <<scheme, this, degree, drawn, ret, pp, u, vFake, v, v_r, com_q,
                 isValid, points, recoveredCoeffs>>

\* Kzg.prove as it would be if it cut the quotient's ladder out of pp with splice
\* instead of copying it with slice: pp loses its first points.
Prove_splice ==
  /\ pc \in AfterCommit
  /\ scheme = "Kzg"
  /\ \E x \in (IF pc = "committed" THEN Fr ELSE {u}) :
       /\ u' = x
       /\ com_q' = Kzg_prove(pp, f_coeffs, x)
  /\ pp' = LET n == IF Len(f_coeffs) = 0 THEN 0 ELSE Min(Len(f_coeffs) - 1, Len(pp))
           IN [k \in 1..(Len(pp) - n) |-> pp[k + n]]
  /\ pc' = IF pc = "committed" THEN "proved" ELSE pc
  /\ last' = "prove"
  /\ UNCHANGED <<scheme, this, degree, drawn, ret, f_coeffs, r_coeffs, vFake, v, v_r,
                 com_f, isValid, points, recoveredCoeffs>>

\* A call of Kzg.prove({pp, f_coeffs, u}) with the arrays commit was called with, the
\* first at a point of the caller's choice, a later one at the same point again.
\* prove reads pp through slice and writes to the fresh array q_coeffs only.
Prove ==
  /\ pc \in AfterCommit
  /\ scheme = "Kzg"
  /\ \E x \in (IF pc = "committed" THEN Fr ELSE {u}) :
       /\ u' = x
       /\ com_q' = Kzg_prove(pp, f_coeffs, x)
  /\ pc' = IF pc = "committed" THEN "proved" ELSE pc
  /\ last' = "prove"
  /\ UNCHANGED <<scheme, this, degree, drawn, ret, pp, f_coeffs, r_coeffs, vFake, v, v_r,
                 com_f, isValid, points, recoveredCoeffs>>

\* A call of CheatingKzg.prove({pp, f_coeffs, u, alpha, vFake}) with the alpha
\* CheatingKzg.setup returned.
CheatingProve ==
  /\ pc \in AfterCommit
  /\ scheme = "CheatingKzg"
  /\ \E x \in (IF pc = "committed" THEN Fr ELSE {u}) :
       \E fake \in (IF pc = "committed" THEN Fr ELSE {vFake}) :
         /\ u' = x
         /\ vFake' = fake
         /\ com_q' = CheatingKzg_prove(f_coeffs, x, fake, ret.alpha)
  /\ pc' = IF pc = "committed" THEN "proved" ELSE pc
  /\ last' = "prove"
  /\ UNCHANGED <<scheme, this, degree, drawn, ret, pp, f_coeffs, r_coeffs, v, v_r,
                 com_f, isValid, points, recoveredCoeffs>>

\* A call of ZkKzg.prove({pp_G1, pp_H, f_coeffs, r_coeffs, u}).
ZkProve ==
  /\ pc \in AfterCommit
  /\ scheme = "ZkKzg"
  /\ \E x \in (IF pc = "committed" THEN Fr ELSE {u}) :
       /\ u' = x
       /\ com_q' = ZkKzg_prove(ret.pp_G1, ret.pp_H, f_coeffs, r_coeffs, x)
  /\ pc' = IF pc = "committed" THEN "proved" ELSE pc
  /\ last' = "prove"
  /\ UNCHANGED <<scheme, this, degree, drawn, ret, pp, f_coeffs, r_coeffs, vFake, v, v_r,
                 com_f, isValid, points, recoveredCoeffs>>

\* A call of Kzg.verify({com_f, com_q, u, v, alpha_G2}) with what commit and prove
\* returned; the caller of CheatingKzg claims the forged value.
Verify ==
  /\ pc \in AfterProve
  /\ scheme \in {"Kzg", "CheatingKzg"}
  /\ com_f # Thrown
  /\ com_q # Thrown
  /\ \E y \in (IF pc = "verified" THEN {v}
               ELSE IF scheme = "CheatingKzg" THEN {vFake} ELSE Fr) :
       /\ v' = y
       /\ isValid' = Kzg_verify(com_f, com_q, u, y, ret.alpha_G2)
  /\ pc' = "verified"
  /\ last' = "verify"
  /\ UNCHANGED <<scheme, this, degree, drawn, ret, pp, f_coeffs, r_coeffs, u, vFake, v_r,
                 com_f, com_q, points, recoveredCoeffs>>

\* A call of ZkKzg.verify({com_f, com_q, u, v, v_r, alpha_G2, H}).
ZkVerify ==
  /\ pc \in AfterProve
  /\ scheme = "ZkKzg"
  /\ com_f # Thrown
  /\ com_q # Thrown
  /\ \E y \in (IF pc = "verified" THEN {v} ELSE Fr) :
       \E y_r \in (IF pc = "verified" THEN {v_r} ELSE Fr) :
         /\ v' = y
         /\ v_r' = y_r
         /\ isValid' = ZkKzg_verify(com_f, com_q, u, y, y_r, ret.alpha_G2, ret.H)
  /\ pc' = "verified"
  /\ last' = "verify"
  /\ UNCHANGED <<scheme, this, degree, drawn, ret, pp, f_coeffs, r_coeffs, u, vFake,
                 com_f, com_q, points, recoveredCoeffs>>

\* The caller evaluates its polynomial at as many points as it has coefficients.
Collect ==
  /\ pc = "new"
  /\ scheme = "utils"
  /\ \E c \in CoeffArrays :
       \E xs \in [1..Len(c) -> Fr] :
         /\ f_coeffs' = c
         /\ points' = [k \in 1..Len(c) |-> [x |-> xs[k], y |-> evalPolyAt(c, xs[k])]]
  /\ pc' = "collected"
  /\ UNCHANGED <<scheme, this, last, degree, drawn, ret, pp, r_coeffs, u, vFake, v, v_r,
                 com_f, com_q, isValid, recoveredCoeffs>>

\* A call of lagrangeInterpolation(Fr, points).
Interpolate ==
  /\ pc = "collected"
  /\ recoveredCoeffs' = lagrangeInterpolation(points)
  /\ pc' = "interpolated"
  /\ UNCHANGED <<scheme, this, last, degree, drawn, ret, pp, f_coeffs, r_coeffs, u, vFake,
                 v, v_r, com_f, com_q, isValid, points>>

Next ==
  \/ Setup
  \/ Commit
  \/ ZkCommit
  \/ Prove
  \/ CheatingProve
  \/ ZkProve
  \/ Verify
  \/ ZkVerify
  \/ Collect
  \/ Interpolate

Spec == Init /\ [][Next]_vars

(***************************************************************************)
(* Vocabulary of the properties: the mathematics the results are compared  *)
(* with, written without the library's partial operations.                 *)
(***************************************************************************)
RECURSIVE Pow(_, _)
Pow(a, n) == IF n = 0 THEN 1 ELSE (a * Pow(a, n - 1)) % ORDER

\* sum_i coeffs[i] * pp[i] for i up to n, as an exponent of the generator.
RECURSIVE LinearCombination(_, _, _)
LinearCombination(ladder, coeffs, n) ==
  IF n = 0 THEN 0
  ELSE (LinearCombination(ladder, coeffs, n - 1) + coeffs[n] * ladder[n].e) % ORDER

NonZero(coeffs) == \A i \in 1..Len(coeffs) : coeffs[i] # 0

Called(stages) == pc \in stages

AfterSetup == {"ready", "failed", "committed", "proved", "verified"}

(***************************************************************************)
(* C1. Completeness of Kzg: for every degree d >= 1, every alpha setup     *)
(* drew, every f of length d+1 (zero coefficients included) and every u    *)
(* (0 included), commit returns, prove returns, and verify with            *)
(* v = evalPolyAt(f, u) returns true: no exception, not false.             *)
(***************************************************************************)
C1_Completeness ==
  (scheme = "Kzg" /\ Called(AfterCommit) /\ pp = ret.pp /\ Len(f_coeffs) = degree + 1) =>
    /\ com_f # Thrown
    /\ Called(AfterProve) => com_q # Thrown
    /\ (pc = "verified" /\ v = evalPolyAt(f_coeffs, u)) => isValid = "true"

(***************************************************************************)
(* C2. Soundness of the honest path: whenever verify is called with the    *)
(* commitment and the proof of f at u and a value v # f(u), it returns the *)
(* boolean false; it does not throw.                                       *)
(***************************************************************************)
C2_Soundness ==
  (scheme = "Kzg" /\ pc = "verified" /\ Len(f_coeffs) = Len(ret.pp)
     /\ v # evalPolyAt(f_coeffs, u)) =>
    isValid = "false"

(***************************************************************************)
(* C3. Soundness collapse under a leaked secret: for the alpha that        *)
(* CheatingKzg.setup returned, every f of length pp.length, every u # alpha*)
(* and every vFake, commit returns, CheatingKzg.prove returns, and the     *)
(* unchanged verify called with v = vFake returns true.                    *)
(***************************************************************************)
C3_SoundnessCollapse ==
  (scheme = "CheatingKzg" /\ Called(AfterCommit) /\ Len(f_coeffs) = Len(ret.pp)) =>
    /\ com_f # Thrown
    /\ (Called(AfterProve) /\ u # ret.alpha) => com_q # Thrown
    /\ (pc = "verified" /\ u # ret.alpha) => isValid = "true"

(***************************************************************************)
(* C4. Completeness of the hiding variant: for every alpha and beta        *)
(* ZkKzg.setup drew, every f and r of length d+1 and every u, commit       *)
(* returns, prove returns, and verify with v = f(u), v_r = r(u) returns    *)
(* true.                                                                   *)
(***************************************************************************)
C4_ZkCompleteness ==
  (scheme = "ZkKzg" /\ Called(AfterCommit)
     /\ Len(f_coeffs) = degree + 1 /\ Len(r_coeffs) = degree + 1) =>
    /\ com_f # Thrown
    /\ Called(AfterProve) => com_q # Thrown
    /\ (pc = "verified" /\ v = evalPolyAt(f_coeffs, u) /\ v_r = evalPolyAt(r_coeffs, u))
         => isValid = "true"

(***************************************************************************)
(* C5. commit fails, and returns no commitment, whenever the coefficient   *)
(* array is shorter or longer than the ladder; the hiding commit also      *)
(* fails whenever r_coeffs and pp_H differ in length.  When the lengths    *)
(* match the length precondition does not fail: commit returns for every   *)
(* array of non-zero coefficients.                                         *)
(***************************************************************************)
C5_CommitLengthPrecondition ==
  /\ (scheme \in {"Kzg", "CheatingKzg"} /\ Called(AfterCommit)) =>
       /\ Len(f_coeffs) # Len(pp) => com_f = Thrown
       /\ (Len(f_coeffs) = Len(pp) /\ NonZero(f_coeffs)) => com_f # Thrown
  /\ (scheme = "ZkKzg" /\ Called(AfterCommit)) =>
       /\ Len(f_coeffs) # Len(ret.pp_G1) => com_f = Thrown
       /\ Len(r_coeffs) # Len(ret.pp_H) => com_f = Thrown
       /\ (Len(f_coeffs) = Len(ret.pp_G1) /\ Len(r_coeffs) = Len(ret.pp_H)
             /\ NonZero(f_coeffs) /\ NonZero(r_coeffs)) => com_f # Thrown

\* The hiding commit was called with a fitting f_coeffs and a longer r_coeffs, all
\* entries non-zero, and threw.
C5_Witness ==
  /\ scheme = "ZkKzg"
  /\ pc = "committed"
  /\ Len(f_coeffs) = Len(ret.pp_G1)
  /\ Len(r_coeffs) > Len(ret.pp_H)
  /\ NonZero(f_coeffs)
  /\ NonZero(r_coeffs)
  /\ com_f = Thrown

(***************************************************************************)
(* C6. Every setup entry point (Kzg, ZkKzg, CheatingKzg,                   *)
(* PolynomialCommitmentScheme) fails for every degree <= 0 and returns no  *)
(* parameter set.                                                          *)
(***************************************************************************)
C6_SetupRejectsDegree ==
  (scheme # "utils" /\ Called(AfterSetup) /\ degree <= 0) => ~returned(ret)

(***************************************************************************)
(* C7. The ladders of setup.  As claimed: for every degree d >= 1 and      *)
(* every sampled alpha (and beta), setup returns pp of length d+1 with     *)
(* pp[i] = alpha^i * G1 and alpha_G2 = alpha * G2; the hiding setup also   *)
(* returns H = beta * G1 and pp_H of length d+1 with                       *)
(* pp_H[i] = beta * alpha^i * G1.                                          *)
(***************************************************************************)
Ladders ==
  /\ returned(ret)
  /\ ret.alpha_G2 = Point("G2", drawn.alpha)
  /\ scheme \in {"Kzg", "CheatingKzg"} =>
       /\ Len(ret.pp) = degree + 1
       /\ ret.pp[1] = G1
       /\ \A i \in 0..degree : ret.pp[i + 1] = Point("G1", Pow(drawn.alpha, i))
  /\ scheme = "ZkKzg" =>
       /\ Len(ret.pp_G1) = degree + 1
       /\ ret.pp_G1[1] = G1
       /\ \A i \in 0..degree : ret.pp_G1[i + 1] = Point("G1", Pow(drawn.alpha, i))
       /\ ret.H = Point("G1", drawn.beta)
       /\ Len(ret.pp_H) = degree + 1
       /\ \A i \in 0..degree :
            ret.pp_H[i + 1] = Point("G1", (drawn.beta * Pow(drawn.alpha, i)) % ORDER)

SetupCalled ==
  /\ scheme \in {"Kzg", "CheatingKzg", "ZkKzg"}
  /\ Called(AfterSetup)
  /\ degree >= 1

ZeroDrawn == drawn.alpha = 0 \/ (scheme = "ZkKzg" /\ drawn.beta = 0)

FullCombination(pp_G1, pp_H, f, r) ==
  Point("G1", (LinearCombination(pp_G1, f, Len(f)) + LinearCombination(pp_H, r, Len(r)))
                 % ORDER)

C9_FullLinearCombination ==
  /\ (scheme \in {"Kzg", "CheatingKzg"} /\ Called(AfterCommit) /\ com_f # Thrown) =>
       /\ com_f = FullCombination(pp, <<>>, f_coeffs, <<>>)
       /\ com_f = Point("G1", evalPolyAt(f_coeffs, drawn.alpha))
  /\ (scheme = "ZkKzg" /\ Called(AfterCommit) /\ com_f # Thrown) =>
       /\ com_f = FullCombination(ret.pp_G1, ret.pp_H, f_coeffs, r_coeffs)
       /\ com_f = Point("G1", (evalPolyAt(f_coeffs, drawn.alpha)
                                 + drawn.beta * evalPolyAt(r_coeffs, drawn.alpha)) % ORDER)
  /\ (scheme = "ZkKzg" /\ Called(AfterProve) /\ com_q # Thrown) =>
       LET q_f == quotient(f_coeffs, u).q
           q_r == quotient(r_coeffs, u).q
       IN com_q = FullCombination(slice(ret.pp_G1, Len(q_f)), slice(ret.pp_H, Len(q_r)),
                                  q_f, q_r)

(***************************************************************************)
(* C10. Interpolation round trip.  As claimed: for every coefficient       *)
(* vector c (a zero highest coefficient and the all-zero vector included)  *)
(* and pairwise distinct points, lagrangeInterpolation of the pairs        *)
(* (x_k, evalPolyAt(c, x_k)) returns exactly c.                            *)
(***************************************************************************)
Distinct(pts) ==
  \A i \in 1..Len(pts) : \A j \in 1..Len(pts) : i # j => pts[i].x # pts[j].x

C10_RoundTripExact ==
  (pc = "interpolated" /\ Distinct(points)) => recoveredCoeffs = f_coeffs

\* c without its trailing zero coefficients.
Trimmed(c) ==
  LET keep == {k \in 0..Len(c) : (k = 0 \/ c[k] # 0)
                                  /\ (\A m \in (k + 1)..Len(c) : c[m] = 0)}
  IN SubSeq(c, 1, CHOOSE k \in keep : TRUE)

\* C10 as amended: lagrangeInterpolation returns c without its trailing zero
\* coefficients: exactly c when the highest coefficient is not 0 (or c is empty), a
\* shorter array otherwise, and the empty array for the all-zero vector.
C10_RoundTrip ==
  (pc = "interpolated" /\ Distinct(points)) =>
    /\ recoveredCoeffs = Trimmed(f_coeffs)
    /\ (Len(f_coeffs) = 0 \/ f_coeffs[Len(f_coeffs)] # 0) => recoveredCoeffs = f_coeffs

\* Three distinct points of a polynomial x -> c0 + c1*x + 0*x^2 gave back <<c0, c1>>.
C10_Witness ==
  /\ pc = "interpolated"
  /\ Distinct(points)
  /\ Len(f_coeffs) = 3
  /\ f_coeffs[3] = 0
  /\ f_coeffs[2] = 2
  /\ recoveredCoeffs = <<f_coeffs[1], 2>>

(***************************************************************************)
(* C11. Degenerate quotient: for a constant polynomial f = [c] and every   *)
(* point u, prove builds an empty quotient and returns the identity of G1, *)
(* and verify, called with the commitment over the one-point ladder [G1],  *)
(* that proof and v = c, returns true: not false, and no exception.        *)
(***************************************************************************)
C11_DegenerateQuotient ==
  (scheme = "Kzg" /\ Called(AfterProve) /\ Len(f_coeffs) = 1) =>
    /\ quotient(f_coeffs, u).q = <<>>
    /\ com_q = G1_ZERO
    /\ (pc = "verified" /\ pp = <<G1>> /\ v = f_coeffs[1]) => isValid = "true"

(***************************************************************************)
(* C14. CheatingKzg.prove fails, and returns no proof, whenever            *)
(* u = alpha, for every f and vFake (also when f(alpha) - vFake = 0); for  *)
(* every u # alpha it returns a proof.                                     *)
(***************************************************************************)
C14_ProveFailsIffDenominatorZero ==
  (scheme = "CheatingKzg" /\ Called(AfterProve)) =>
    (com_q = Thrown <=> u = ret.alpha)

(***************************************************************************)
(* C15. Exact synthetic division: for every f of length n >= 1 and every   *)
(* u, the quotient q of prove has length n-1, every entry of q is          *)
(* assigned, and q(x) * (x - u) + f(u) = f(x) coefficient by coefficient;  *)
(* with another constant v in place of f(u) the identity fails, so the     *)
(* division of f - v by x - u is exact iff v = f(u).  The hiding prove     *)
(* divides r the same way.                                                 *)
(***************************************************************************)
\* Coefficient k (from 0) of q(x) * (x - x0) + c.
ProductCoefficient(q, x0, c, k) ==
  LET shifted == IF k >= 1 THEN q[k] ELSE 0
      scaled == IF k + 1 <= Len(q) THEN Fr_mul(x0, q[k + 1]) ELSE 0
      constant == IF k = 0 THEN c ELSE 0
  IN Fr_add(Fr_sub(shifted, scaled), constant)

\* q(x) * (x - x0) + c = f(x), coefficient by coefficient.
DivisionIdentity(f, q, x0, c) ==
  \A k \in 0..(Len(f) - 1) : f[k + 1] = ProductCoefficient(q, x0, c, k)

ExactQuotient(f, x0) ==
  LET q == quotient(f, x0).q
  IN /\ Len(q) = Len(f) - 1
     /\ \A k \in 1..Len(q) : q[k] \in Fr
     /\ \A c \in Fr : DivisionIdentity(f, q, x0, c) <=> c = evalPolyAt(f, x0)

C15_ExactSyntheticDivision ==
  /\ (scheme \in {"Kzg", "ZkKzg"} /\ Called(AfterProve) /\ Len(f_coeffs) >= 1) =>
       ExactQuotient(f_coeffs, u)
  /\ (scheme = "ZkKzg" /\ Called(AfterProve) /\ Len(r_coeffs) >= 1) =>
       ExactQuotient(r_coeffs, u)

\* prove divided x^2 + 2x + 1 by x - 2: the quotient is x + 1 and f(2) = 0.
C15_Witness ==
  /\ scheme = "Kzg"
  /\ pc = "proved"
  /\ f_coeffs = <<1, 2, 1>>
  /\ u = 2
  /\ quotient(f_coeffs, u).q = <<1, 1>>
  /\ com_q = Point("G1", (1 + drawn.alpha) % ORDER)

(***************************************************************************)
(* C16. The carry after the division loop.  As claimed: when the loop of   *)
(* prove has run from i = length-1 down to 1, the final value of carry is  *)
(* f(u), for every f and u.                                                *)
(***************************************************************************)
Divided ==
  /\ scheme \in {"Kzg", "ZkKzg"}
  /\ Called(AfterProve)
  /\ Len(f_coeffs) >= 1

C16_FinalCarryIsValue ==
  Divided => quotient(f_coeffs, u).carry = evalPolyAt(f_coeffs, u)

\* C16 as amended: the loop stops before the constant coefficient, so the final carry
\* is q[0], the value at u of f without its constant coefficient (0 for a constant
\* f), and f(u) = f[0] + u * carry.
C16_FinalCarry ==
  Divided =>
    LET d == quotient(f_coeffs, u)
    IN /\ d.carry = IF Len(f_coeffs) = 1 THEN 0 ELSE d.q[1]
       /\ d.carry = evalPolyAt(Tail(f_coeffs), u)
       /\ evalPolyAt(f_coeffs, u) = Fr_add(f_coeffs[1], Fr_mul(u, d.carry))

\* The hiding prove divided 1 + x by x - 1: the carry ends at 1 while f(1) = 2.
C16_Witness ==
  /\ scheme = "ZkKzg"
  /\ pc = "proved"
  /\ f_coeffs = <<1, 1>>
  /\ u = 1
  /\ quotient(f_coeffs, u).carry = 1
  /\ evalPolyAt(f_coeffs, u) = 2

(***************************************************************************)
(* C17. The hiding verify: for com_f = commit(f, r) and                    *)
(* com_q = prove(f, r, u) built from the parameters of one setup,          *)
(* ZkKzg.verify(com_f, com_q, u, v, v_r, alpha_G2, H) returns true if and  *)
(* only if both f(u) = v and r(u) = v_r: it returns true for the true      *)
(* pair, and accepts no pair with v # f(u) or v_r # r(u).                  *)
(***************************************************************************)
C17_ZkVerifyIffBothValues ==
  (scheme = "ZkKzg" /\ pc = "verified"
     /\ Len(f_coeffs) = Len(ret.pp_G1) /\ Len(r_coeffs) = Len(ret.pp_H)) =>
    (isValid = "true" <=>
       (v = evalPolyAt(f_coeffs, u) /\ v_r = evalPolyAt(r_coeffs, u)))

C19_CheatingProverAgreesOnTrueClaims ==
  (scheme = "CheatingKzg" /\ Called(AfterProve)
     /\ pp = ret.pp /\ Len(f_coeffs) = Len(pp)
     /\ u # ret.alpha /\ vFake = evalPolyAt(f_coeffs, u)) =>
    /\ com_q # Thrown
    /\ Kzg_prove(pp, f_coeffs, u) # Thrown
    /\ com_q = Kzg_prove(pp, f_coeffs, u)

====
